---- MODULE Spec2Model ----
(***************************************************************************)
(* gr24-signal-converter (src/main.py): wide telemetry tables are read in  *)
(* chunks, every chunk is reshaped to the long "signals" format and every  *)
(* non-empty result is written as one parquet file.                        *)
(*                                                                         *)
(* Three specifications share the definitions below:                       *)
(*   SpecTransform  one call of transform_<kind>_chunk on a caller's batch *)
(*   SpecExport     the chunk loop of process_<kind>_data over one fixed   *)
(*                  table, once per chunk size                             *)
(*   Spec           main(): the five exports in sequence, with failures    *)
(*                  and repeated runs over one output directory            *)
(***************************************************************************)
EXTENDS Integers, Sequences, FiniteSets, TLC

(***************************************************************************)
(* Bounds of the model.                                                    *)
(***************************************************************************)
\* rows of the batch handed to one transform call
MaxRows == 2
\* rows of the source table of one export
MaxTableRows == 2
\* distinct created_at instants (microseconds) in a source table
MaxTime == 2
\* chunk sizes 1..MaxChunkSize are compared on the same table
MaxChunkSize == 2
\* chunks the database hands out over all runs of main(), failing ones
\* included
MaxReads == 3
\* runs of main() over the same output directory
MaxRuns == 2

(***************************************************************************)
(* Schema: the column -> signal_id mappings of the five transforms.        *)
(***************************************************************************)
Kinds == <<"vdm", "acu", "inverter", "pedal", "mobile">>

KindSet == {Kinds[i] : i \in 1..Len(Kinds)}

\* range(128) of the accumulator cell columns
NumCells == 128

vdm_numeric_columns ==
    << <<"mode", "vdm_mode">>, <<"state", "vdm_state">>,
       <<"rev_limit", "vdm_rev_limit">>, <<"tcm_status", "vdm_tcm_status">>,
       <<"can_status", "vdm_can_status">>,
       <<"system_status", "vdm_system_status">>,
       <<"max_power", "vdm_max_power">>, <<"speed", "vdm_speed">>,
       <<"brake_f", "vdm_brake_f">>, <<"brake_r", "vdm_brake_r">> >>

vdm_boolean_columns ==
    << <<"is_ams_fault", "vdm_ams_fault">>, <<"is_imd_fault", "vdm_imd_fault">>,
       <<"is_bspd_fault", "vdm_bspd_fault">>,
       <<"is_sdc_opened", "vdm_sdc_opened">>,
       <<"motor_temp_warning", "vdm_motor_temp_warning">>,
       <<"motor_temp_limit", "vdm_motor_temp_limit">> >>

acu_literal_numeric_columns ==
    << <<"accumulator_voltage", "acu_accumulator_voltage">>,
       <<"accumulator_current", "acu_accumulator_current">>,
       <<"max_cell_temp", "acu_max_cell_temp">>,
       <<"ts_voltage", "acu_ts_voltage">>,
       <<"max_bal_resistor_temp", "acu_max_bal_resistor_temp">>,
       <<"sdc_voltage", "acu_sdc_voltage">>,
       <<"glv_voltage", "acu_glv_voltage">>,
       <<"state_of_charge", "acu_state_of_charge">>,
       <<"fan1_speed", "acu_fan1_speed">>, <<"fan2_speed", "acu_fan2_speed">>,
       <<"fan3_speed", "acu_fan3_speed">>, <<"pump_speed", "acu_pump_speed">>,
       <<"acu_temp1", "acu_temp1">>, <<"acu_temp2", "acu_temp2">>,
       <<"acu_temp3", "acu_temp3">> >>

\* for i in range(128): cell{i}_voltage, then cell{i}_temp, in insertion order
acu_cell_columns ==
    SubSeq([j \in 1..(2 * NumCells) |->
               LET i == (j - 1) \div 2
                   suffix == IF j % 2 = 1 THEN "_voltage" ELSE "_temp"
               IN  << "cell" \o ToString(i) \o suffix,
                      "acu_cell" \o ToString(i) \o suffix >>],
           1, 2 * NumCells)

acu_numeric_columns == acu_literal_numeric_columns \o acu_cell_columns

acu_boolean_columns ==
    << <<"over_temp_error", "acu_over_temp_error">>,
       <<"over_voltage_error", "acu_over_voltage_error">>,
       <<"over_current_error", "acu_over_current_error">>,
       <<"bms_error", "acu_bms_error">>,
       <<"under_voltage_error", "acu_under_voltage_error">>,
       <<"precharge_error", "acu_precharge_error">>,
       <<"teensy_error", "acu_teensy_error">>,
       <<"under_temp_error", "acu_under_temp_error">>,
       <<"is_air_positive", "acu_air_positive">>,
       <<"is_air_negative", "acu_air_negative">>,
       <<"is_precharging", "acu_precharging">>,
       <<"is_precharge_done", "acu_precharge_done">>,
       <<"is_shutdown", "acu_shutdown">> >>

inverter_numeric_columns ==
    << <<"erpm", "inverter_erpm">>, <<"duty_cycle", "inverter_duty_cycle">>,
       <<"input_voltage", "inverter_input_voltage">>,
       <<"current_ac", "inverter_current_ac">>,
       <<"current_dc", "inverter_current_dc">>,
       <<"controller_temp", "inverter_controller_temp">>,
       <<"motor_temp", "inverter_motor_temp">>,
       <<"faults", "inverter_faults">>, <<"foc_id", "inverter_foc_id">>,
       <<"fociq", "inverter_fociq">>, <<"throttle", "inverter_throttle">>,
       <<"brake", "inverter_brake">>, <<"digital_io", "inverter_digital_io">>,
       <<"drive_enable", "inverter_drive_enable">>,
       <<"flags_one", "inverter_flags_one">>,
       <<"flags_two", "inverter_flags_two">>,
       <<"can_version", "inverter_can_version">> >>

inverter_boolean_columns ==
    << <<"overvoltage_error", "inverter_overvoltage_error">>,
       <<"undervoltage_error", "inverter_undervoltage_error">>,
       <<"drv_error", "inverter_drv_error">>,
       <<"overcurrent_error", "inverter_overcurrent_error">>,
       <<"controller_overtemp_error", "inverter_controller_overtemp_error">>,
       <<"motor_overtemp_error", "inverter_motor_overtemp_error">>,
       <<"sensor_wire_error", "inverter_sensor_wire_error">>,
       <<"sensor_general_error", "inverter_sensor_general_error">>,
       <<"can_command_error", "inverter_can_command_error">>,
       <<"analog_input_error", "inverter_analog_input_error">> >>

pedal_numeric_columns ==
    << <<"apps_one", "pedal_apps_one">>, <<"apps_two", "pedal_apps_two">>,
       <<"apps_one_raw", "pedal_apps_one_raw">>,
       <<"apps_two_raw", "pedal_apps_two_raw">> >>

mobile_numeric_columns ==
    << <<"latitude", "mobile_latitude">>, <<"longitude", "mobile_longitude">>,
       <<"altitude", "mobile_altitude">>, <<"speed", "mobile_speed">>,
       <<"heading", "mobile_heading">>,
       <<"accelerometer_x", "mobile_accelerometer_x">>,
       <<"accelerometer_y", "mobile_accelerometer_y">>,
       <<"accelerometer_z", "mobile_accelerometer_z">>,
       <<"gyroscope_x", "mobile_gyroscope_x">>,
       <<"gyroscope_y", "mobile_gyroscope_y">>,
       <<"gyroscope_z", "mobile_gyroscope_z">>,
       <<"magnetometer_x", "mobile_magnetometer_x">>,
       <<"magnetometer_y", "mobile_magnetometer_y">>,
       <<"magnetometer_z", "mobile_magnetometer_z">>,
       <<"battery", "mobile_battery">> >>

numeric_columns(kind) ==
    CASE kind = "vdm" -> vdm_numeric_columns
      [] kind = "acu" -> acu_numeric_columns
      [] kind = "inverter" -> inverter_numeric_columns
      [] kind = "pedal" -> pedal_numeric_columns
      [] kind = "mobile" -> mobile_numeric_columns

\* the pedal and mobile transforms have no boolean loop
boolean_columns(kind) ==
    CASE kind = "vdm" -> vdm_boolean_columns
      [] kind = "acu" -> acu_boolean_columns
      [] kind = "inverter" -> inverter_boolean_columns
      [] kind = "pedal" -> <<>>
      [] kind = "mobile" -> <<>>

\* the columns in the order the transform walks them
vdm_columns == vdm_numeric_columns \o vdm_boolean_columns

acu_columns == acu_numeric_columns \o acu_boolean_columns

inverter_columns == inverter_numeric_columns \o inverter_boolean_columns

mapped_columns(kind) ==
    CASE kind = "vdm" -> vdm_columns
      [] kind = "acu" -> acu_columns
      [] kind = "inverter" -> inverter_columns
      [] kind = "pedal" -> pedal_numeric_columns
      [] kind = "mobile" -> mobile_numeric_columns

\* the names and ids of a column table
NamesIn(columns) == {columns[i][1] : i \in 1..Len(columns)}

IdsIn(columns) == {columns[i][2] : i \in 1..Len(columns)}

SignalIds(kind) == IdsIn(mapped_columns(kind))

(***************************************************************************)
(* Values of a DataFrame cell.  A row is a function from column names to   *)
(* values; a DataFrame is a sequence of rows.                              *)
(***************************************************************************)
Null == [t |-> "null"]

IntVal(i) == [t |-> "int", i |-> i]

BoolVal(b) == [t |-> "bool", b |-> b]

FloatVal(f) == [t |-> "float", f |-> f]

NaN == [t |-> "nan"]

\* a timestamp already held as datetime64, microsecond us
Datetime(us) == [t |-> "datetime64", us |-> us]

NaT == [t |-> "NaT"]

\* a timestamp held as text (object column)
StrVal(s) == [t |-> "str", s |-> s]

\* the text of microsecond us of the test day
TimeText(us) == "2024-05-04 10:00:00.00000" \o ToString(us)

GarbageText == "not a timestamp"

\* Series.notna(): None / NaN / NaT are the nulls
notna(v) == v.t \notin {"null", "nan", "NaT"}

\* whether pd.to_datetime can convert the value
parseable(v) ==
    \/ v.t \in {"datetime64", "null", "NaT"}
    \/ v.t = "str" /\ \E us \in 0..9 : TimeText(us) = v.s

\* pd.to_datetime of one value that parses
to_datetime(v) ==
    CASE v.t = "datetime64" -> v
      [] v.t = "str" -> Datetime(CHOOSE us \in 0..9 : TimeText(us) = v.s)
      [] OTHER -> NaT

\* Series.astype(float) of one value
astype_float(v) ==
    CASE v.t = "bool" -> FloatVal(IF v.b THEN 1 ELSE 0)
      [] v.t = "int" -> FloatVal(v.i)
      [] v.t = "float" -> v
      [] OTHER -> NaN

\* the result a transform returns when nothing was collected
None == [none |-> TRUE, rows |-> <<>>]

DataFrame(rows) == [none |-> FALSE, rows |-> rows]

(***************************************************************************)
(* transform_<kind>_chunk(df).  The five functions differ only in their    *)
(* column tables and node label (pedal and mobile have no boolean loop).   *)
(***************************************************************************)
\* A row holds created_at, millis and, in cells, the mapped columns of its
\* table in the order of the column tables (numeric, then boolean); df[col]
\* is the entry at the column's position.
\* df['created_at'] = pd.to_datetime(df['created_at']): the caller's frame
\* gets the converted column
assign_created_at(df) ==
    [i \in 1..Len(df) |->
        [df[i] EXCEPT !.created_at = to_datetime(df[i].created_at)]]

\* Mutant of mask: every row selected, null or not.
mask_all_rows(df, col) ==
    [i \in 1..Len(df) |-> TRUE]

\* mask = df[col].notna()
mask(df, col) ==
    [i \in 1..Len(df) |-> notna(df[i].cells[col])]

\* mask.any()
any(m) == \E i \in DOMAIN m : m[i]

\* df.loc[mask]: the selected rows, in row order
loc(df, m) ==
    LET Selected(i) == m[i]
        idx == SelectSeq([i \in 1..Len(df) |-> i], Selected)
    IN  [k \in 1..Len(idx) |-> df[idx[k]]]

\* the pd.DataFrame({...}) built for the column at position col
signal_frame(df, col, signal_id, node) ==
    LET sel == loc(df, mask(df, col))
    IN  [k \in 1..Len(sel) |->
            [signal_id |-> signal_id,
             created_at |-> sel[k].created_at,
             scaled_value |-> astype_float(sel[k].cells[col]),
             node |-> node,
             millis |-> sel[k].millis]]

\* one of the two "for col, signal_id in ...items()" loops over a column
\* table whose first column sits after position offset: the frames it
\* appends to signals, one per column whose mask has a row, in column order
append_signals(df, columns, offset, node) ==
    LET HasData(j) == any(mask(df, offset + j))
        kept == SelectSeq([j \in 1..Len(columns) |-> j], HasData)
    IN  [k \in 1..Len(kept) |->
            signal_frame(df, offset + kept[k], columns[kept[k]][2], node)]

\* the frames of a list laid end to end
RECURSIVE flatten(_)
flatten(signals) ==
    IF signals = <<>> THEN <<>>
    ELSE Head(signals) \o flatten(Tail(signals))

\* Mutant of concat: a row that repeats the (signal_id, created_at) pair of
\* an earlier row is dropped.
concat_unique(signals) ==
    LET all == flatten(signals)
        First(k) == \A j \in 1..(k - 1) :
                       ~(/\ all[j].signal_id = all[k].signal_id
                         /\ all[j].created_at = all[k].created_at)
        idx == SelectSeq([k \in 1..Len(all) |-> k], First)
    IN  [k \in 1..Len(idx) |-> all[idx[k]]]

\* pd.concat(signals, ignore_index=True)
concat(signals) == flatten(signals)

\* The two column loops and the return, on the frame d that already holds
\* the converted created_at column.
collect_signals(d, numeric, boolean, node) ==
    LET signals == append_signals(d, numeric, 0, node)
                   \o append_signals(d, boolean, Len(numeric), node)
    IN  [raised |-> FALSE,
         df |-> d,
         result |-> IF signals # <<>>
                    THEN DataFrame(concat(signals))
                    ELSE None]

\* The body shared by the five transforms.  Returns what the call leaves
\* behind: whether it raised, the caller's frame after the call, the result.
\* A created_at value that does not parse makes pd.to_datetime raise before
\* the column is assigned.  (The converted frame is bound once, as d.)
transform_chunk(df, numeric, boolean, node) ==
    IF \E i \in 1..Len(df) : ~parseable(df[i].created_at)
    THEN [raised |-> TRUE, df |-> df, result |-> None]
    ELSE CHOOSE r \in {collect_signals(d, numeric, boolean, node) :
                         d \in {SubSeq(assign_created_at(df), 1, Len(df))}} :
            TRUE

transform_acu_chunk(df) ==
    transform_chunk(df, acu_numeric_columns, acu_boolean_columns, "acu")

transform_vdm_chunk(df) ==
    transform_chunk(df, vdm_numeric_columns, vdm_boolean_columns, "vdm")

transform_inverter_chunk(df) ==
    transform_chunk(df, inverter_numeric_columns, inverter_boolean_columns,
                    "inverter")

transform_pedal_chunk(df) ==
    transform_chunk(df, pedal_numeric_columns, <<>>, "pedal")

transform_mobile_chunk(df) ==
    transform_chunk(df, mobile_numeric_columns, <<>>, "mobile")

\* the transform process_<kind>_data calls
transform(kind, df) ==
    CASE kind = "vdm" -> transform_vdm_chunk(df)
      [] kind = "acu" -> transform_acu_chunk(df)
      [] kind = "inverter" -> transform_inverter_chunk(df)
      [] kind = "pedal" -> transform_pedal_chunk(df)
      [] kind = "mobile" -> transform_mobile_chunk(df)

(***************************************************************************)
(* Input universes.  Every row has all columns of its table; the columns   *)
(* named here vary, every other mapped column is null.                     *)
(***************************************************************************)
ProbeColumns(kind) ==
    CASE kind = "vdm" -> {"mode", "is_ams_fault"}
      [] kind = "acu" -> {"cell47_voltage", "is_shutdown"}
      [] kind = "inverter" -> {"erpm", "analog_input_error"}
      [] kind = "pedal" -> {"apps_one", "apps_two"}
      [] kind = "mobile" -> {"latitude", "battery"}

IsBooleanColumn(kind, col) ==
    \E i \in 1..Len(boolean_columns(kind)) : boolean_columns(kind)[i][1] = col

\* the values a varying column takes; bools are the boolean values used
ProbeValues(kind, col, bools) ==
    IF IsBooleanColumn(kind, col)
    THEN {Null} \cup {BoolVal(b) : b \in bools}
    ELSE {Null, IntVal(3)}

ProbeAssignments(kind, bools) ==
    LET all == UNION {ProbeValues(kind, c, bools) : c \in ProbeColumns(kind)}
    IN  {f \in [ProbeColumns(kind) -> all] :
            \A c \in ProbeColumns(kind) : f[c] \in ProbeValues(kind, c, bools)}

MkRow(kind, created_at, millis, probes) ==
    [created_at |-> created_at,
     millis |-> IntVal(millis),
     cells |-> [i \in 1..Len(mapped_columns(kind)) |->
                   LET c == mapped_columns(kind)[i][1]
                   IN  IF c \in DOMAIN probes THEN probes[c] ELSE Null]]

Rows(kind, created_ats, bools) ==
    {MkRow(kind, ca, 10, p) :
        ca \in created_ats, p \in ProbeAssignments(kind, bools)}

\* sequences over S of length lo..hi
SeqsOf(S, lo, hi) == UNION {[1..n -> S] : n \in lo..hi}

\* created_at as datetime64, as parseable text, as text that does not parse
MixedCreatedAts == {Datetime(1), StrVal(TimeText(1)), StrVal(GarbageText)}

TransformRows(kind) == Rows(kind, MixedCreatedAts, BOOLEAN)

VARIABLES
    \* SpecTransform: one call of a transform
    t_kind,      \* which transform is called
    t_before,    \* the batch as the caller built it
    t_df,        \* the caller's batch object
    t_result,    \* what the call returned
    t_pc         \* "ready" | "returned" | "raised"

tvars == <<t_kind, t_before, t_df, t_result, t_pc>>

VARIABLES
    e_kind,      \* the source kind exported
    e_table,     \* the content of its table
    e_exp        \* per chunk size: the state of that export

evars == <<e_kind, e_table, e_exp>>

VARIABLES
    m_environ,       \* os.environ of the process
    m_run,           \* which run of main() this is
    m_pc,            \* "call" | "loop" | "finished" | "failed"
    m_k,             \* main() is at the export of Kinds[k]
    m_engine,        \* the engine of the current export
    m_chunk_number,  \* local of the current export
    m_total_rows,    \* local of the current export
    m_rows,          \* main()'s <kind>_rows, for the exports that returned
    m_dir_exists,    \* signals_output exists
    m_disk,          \* path -> table, the files of signals_output
    m_reported,      \* what the except branch printed: [kind, what]
    m_reads,         \* chunks handed out so far, over all runs
    m_entered,       \* history: the exports entered in this run, in order
    m_attempted,     \* history: the kinds whose table this run tried to read
    m_outputs,       \* history: per run and kind, the tables it wrote, in order
    m_prev_disk      \* history: the directory as this run found it

mvars == <<m_environ, m_run, m_pc, m_k, m_engine, m_chunk_number,
           m_total_rows, m_rows, m_dir_exists, m_disk, m_reported, m_reads,
           m_entered, m_attempted, m_outputs, m_prev_disk>>

vars == <<tvars, evars, mvars>>

NothingReported == [kind |-> "", what |-> ""]

\* the output directory with no file in it
EmptyDisk == [p \in {} |-> <<>>]

MainIdle ==
    /\ m_environ = <<>>
    /\ m_run = 0
    /\ m_pc = "idle"
    /\ m_k = 0
    /\ m_engine = ""
    /\ m_chunk_number = 0
    /\ m_total_rows = 0
    /\ m_rows = <<>>
    /\ m_dir_exists = FALSE
    /\ m_disk = EmptyDisk
    /\ m_reported = NothingReported
    /\ m_reads = 0
    /\ m_entered = <<>>
    /\ m_attempted = {}
    /\ m_outputs = <<>>
    /\ m_prev_disk = EmptyDisk

\* the variables of a specification that is not the one running
TransformIdle ==
    /\ t_kind = "vdm"
    /\ t_before = <<>>
    /\ t_df = <<>>
    /\ t_result = None
    /\ t_pc = "idle"

ExportIdle ==
    /\ e_kind = "vdm"
    /\ e_table = <<>>
    /\ e_exp = <<>>

TransformInit ==
    /\ t_kind \in KindSet
    /\ t_before \in SeqsOf(TransformRows(t_kind), 1, MaxRows)
    /\ t_df = t_before
    /\ t_result = None
    /\ t_pc = "ready"
    /\ ExportIdle
    /\ MainIdle

\* transformed_df = transform_<kind>_chunk(chunk_df)
CallTransform ==
    /\ t_pc = "ready"
    /\ LET r == transform(t_kind, t_df)
       IN  /\ t_df' = r.df
           /\ t_result' = r.result
           /\ t_pc' = IF r.raised THEN "raised" ELSE "returned"
    /\ UNCHANGED <<t_kind, t_before>>
    /\ UNCHANGED <<evars, mvars>>

TransformNext == CallTransform

SpecTransform == TransformInit /\ [][TransformNext]_vars

(***************************************************************************)
(* process_<kind>_data(): the parts of the five copies, which differ only  *)
(* in table name, file prefix and transform.                               *)
(***************************************************************************)
\* output_dir = "signals_output"
output_dir == "signals_output"

\* os.path.join(output_dir, f"<kind>_chunk_{chunk_number}.parquet")
output_file(kind, chunk_number) ==
    output_dir \o "/" \o kind \o "_chunk_" \o ToString(chunk_number)
        \o ".parquet"

\* pa.Table.from_pandas(transformed_df, schema=schema): the five columns in
\* the schema's types
from_pandas(transformed_df) ==
    [k \in 1..Len(transformed_df.rows) |->
        LET r == transformed_df.rows[k]
        IN  [signal_id |-> r.signal_id,
             created_at |-> IF r.created_at.t = "datetime64"
                            THEN [t |-> "timestamp[us]", us |-> r.created_at.us]
                            ELSE Null,
             scaled_value |-> IF r.scaled_value.t = "float"
                              THEN [t |-> "float64", f |-> r.scaled_value.f]
                              ELSE Null,
             node |-> r.node,
             millis |-> IF r.millis.t = "int"
                        THEN [t |-> "int64", i |-> r.millis.i]
                        ELSE Null]]

\* pq.write_table(table, output_file): the file is created or replaced
write_table(disk, path, table) ==
    [p \in DOMAIN disk \cup {path} |-> IF p = path THEN table ELSE disk[p]]

\* Mutant of first_chunk_number: numbering continues after the files of the
\* kind that the directory already holds.
first_chunk_number_after_existing(disk, kind) ==
    Cardinality({n \in 0..(MaxReads + 1) :
                    output_file(kind, n) \in DOMAIN disk})

\* chunk_number = 0
first_chunk_number(disk, kind) == 0

\* Mutant of add_rows: the total counts chunks, not signals.
add_rows_per_chunk(total_rows, transformed_df) ==
    total_rows + 1

\* total_rows += len(transformed_df)
add_rows(total_rows, transformed_df) ==
    total_rows + Len(transformed_df.rows)

\* Mutant of write_chunk: the index advances for an empty result too.
write_chunk_always_advancing(kind, st, transformed_df) ==
    IF ~transformed_df.none
    THEN [disk |-> write_table(st.disk, output_file(kind, st.chunk_number),
                               from_pandas(transformed_df)),
          total_rows |-> add_rows(st.total_rows, transformed_df),
          chunk_number |-> st.chunk_number + 1]
    ELSE [st EXCEPT !.chunk_number = @ + 1]

\* the body of "if transformed_df is not None:" and its empty else;
\* st holds disk, chunk_number and total_rows
write_chunk(kind, st, transformed_df) ==
    IF ~transformed_df.none
    THEN [disk |-> write_table(st.disk, output_file(kind, st.chunk_number),
                               from_pandas(transformed_df)),
          total_rows |-> add_rows(st.total_rows, transformed_df),
          chunk_number |-> st.chunk_number + 1]
    ELSE st

\* the chunk that pd.read_sql(query, engine, chunksize) yields after pos
\* rows of the table were handed out
read_sql_chunk(table, pos, chunk_size) ==
    SubSeq(table, pos + 1,
           IF pos + chunk_size < Len(table) THEN pos + chunk_size
           ELSE Len(table))

(***************************************************************************)
(* SpecExport: the chunk loop over one fixed table, run once per chunk     *)
(* size 1..MaxChunkSize, each run into an empty directory of its own.      *)
(* The source fixes chunk_size = 10000; here it is the loop's parameter.   *)
(***************************************************************************)
ExportRows(kind) == Rows(kind, {Datetime(us) : us \in 1..MaxTime}, {TRUE})

ChunkSizes == 1..MaxChunkSize

ExportInit ==
    /\ e_kind \in KindSet
    /\ e_table \in SeqsOf(ExportRows(e_kind), 0, MaxTableRows)
    /\ e_exp = [cs \in ChunkSizes |->
                   [pc |-> "loop", pos |-> 0, disk |-> EmptyDisk,
                    chunk_number |-> first_chunk_number(EmptyDisk, e_kind),
                    total_rows |-> 0, returned |-> 0]]
    /\ TransformIdle
    /\ MainIdle

\* The exports share nothing; they run one after another, smallest chunk
\* size first.
Turn(cs) ==
    /\ e_exp[cs].pc = "loop"
    /\ \A c \in ChunkSizes : c < cs => e_exp[c].pc # "loop"

\* one iteration of "for chunk_df in pd.read_sql(...)"
ExportChunk(cs) ==
    LET x == e_exp[cs]
    IN  /\ Turn(cs)
        /\ x.pos < Len(e_table)
        /\ \E chunk_df \in {read_sql_chunk(e_table, x.pos, cs)} :
           \E r \in {transform(e_kind, chunk_df)} :
           \E w \in {write_chunk(e_kind,
                                 [disk |-> x.disk,
                                  chunk_number |-> x.chunk_number,
                                  total_rows |-> x.total_rows], r.result)} :
              e_exp' = [e_exp EXCEPT ![cs] =
                          IF r.raised THEN [x EXCEPT !.pc = "raised"]
                          ELSE [x EXCEPT !.pos = x.pos + Len(chunk_df),
                                         !.disk = w.disk,
                                         !.chunk_number = w.chunk_number,
                                         !.total_rows = w.total_rows]]
        /\ UNCHANGED <<e_kind, e_table>>
        /\ UNCHANGED <<tvars, mvars>>

\* the iterator is exhausted: return total_rows
ExportReturn(cs) ==
    LET x == e_exp[cs]
    IN  /\ Turn(cs)
        /\ x.pos = Len(e_table)
        /\ e_exp' = [e_exp EXCEPT ![cs] =
                        [x EXCEPT !.pc = "returned", !.returned = x.total_rows]]
        /\ UNCHANGED <<e_kind, e_table>>
        /\ UNCHANGED <<tvars, mvars>>

ExportNext ==
    \E cs \in ChunkSizes : ExportChunk(cs) \/ ExportReturn(cs)

SpecExport == ExportInit /\ [][ExportNext]_vars

(***************************************************************************)
(* create_db_connection() and the database behind it.                      *)
(***************************************************************************)
EnvNames == {"DB_USER", "DB_PASSWORD", "DB_HOST", "DB_PORT", "DB_NAME"}

\* an environment that names the database
FullEnv ==
    [DB_USER |-> "gr24", DB_PASSWORD |-> "secret", DB_HOST |-> "db.local",
     DB_PORT |-> "3306", DB_NAME |-> "telemetry"]

Unset(environ, name) ==
    [n \in DOMAIN environ \ {name} |-> environ[n]]

\* os.getenv(name) as the f-string renders it: a missing variable is None,
\* formatted "None"
os_getenv(environ, name) ==
    IF name \in DOMAIN environ THEN environ[name] ELSE "None"

\* the connection string create_db_connection() builds
create_db_connection(environ) ==
    "mysql+pymysql://" \o os_getenv(environ, "DB_USER") \o ":"
        \o os_getenv(environ, "DB_PASSWORD") \o "@"
        \o os_getenv(environ, "DB_HOST") \o ":"
        \o os_getenv(environ, "DB_PORT") \o "/"
        \o os_getenv(environ, "DB_NAME")

\* the database answers the connection that names it and no other
Connects(engine) == engine = create_db_connection(FullEnv)

(***************************************************************************)
(* Spec: main() over one output directory, run up to MaxRuns times.        *)
(* The tables are the database's: every chunk pd.read_sql yields is drawn  *)
(* when it is read.  chunk_size is scaled down to one row per chunk.       *)
(***************************************************************************)
StreamRows(kind) ==
    {MkRow(kind, ca, 10, p) :
        ca \in {Datetime(1), Datetime(2), StrVal(GarbageText)},
        p \in [{numeric_columns(kind)[1][1]} -> {Null, IntVal(3)}]}

StreamChunks(kind) == SeqsOf(StreamRows(kind), 1, 1)

\* what the transform of each kind makes of each chunk the stream can yield
Transformed ==
    [kind \in KindSet |->
        {[chunk_df |-> c, r |-> transform(kind, c)] : c \in StreamChunks(kind)}]

NoOutputs == [kind \in KindSet |-> <<>>]

\* the environment names the database, or lacks one of the five variables
Init ==
    /\ m_environ \in {FullEnv} \cup {Unset(FullEnv, n) : n \in EnvNames}
    /\ m_run = 1
    /\ m_pc = "call"
    /\ m_k = 1
    /\ m_engine = ""
    /\ m_chunk_number = 0
    /\ m_total_rows = 0
    /\ m_rows = <<>>
    /\ m_dir_exists = FALSE
    /\ m_disk = EmptyDisk
    /\ m_reported = NothingReported
    /\ m_reads = 0
    /\ m_entered = <<>>
    /\ m_attempted = {}
    /\ m_outputs = [r \in 1..MaxRuns |-> NoOutputs]
    /\ m_prev_disk = EmptyDisk
    /\ TransformIdle
    /\ ExportIdle

\* Mutant of makedirs: the directory is emptied when it exists.
makedirs_fresh(files) == EmptyDisk

\* os.makedirs(output_dir, exist_ok=True): an existing directory and its
\* files are left as they are
makedirs(files) == files

\* Mutant of except_branch: the failed export is skipped and main() goes on
\* with the next one.
except_continue(i) ==
    IF i < Len(Kinds) THEN [pc |-> "call", k |-> i + 1]
    ELSE [pc |-> "finished", k |-> i]

\* "except Exception as e: print(...)": the try block is left for good, no
\* later export is called
except_branch(i) == [pc |-> "failed", k |-> i]

\* Mutant of unwind: the failing export removes the files it wrote.
unwind_with_rollback(files, kind, written) ==
    [p \in DOMAIN files \ {output_file(kind, n) : n \in 0..(written - 1)} |->
        files[p]]

\* an exception leaves process_<kind>_data: the function has no handler and
\* no cleanup, so the directory stays as the export left it
unwind(files, kind, written) == files

\* an exception reaches main(): nothing is assigned to <kind>_rows
Fail(what) ==
    /\ m_pc' = except_branch(m_k).pc
    /\ m_k' = except_branch(m_k).k
    /\ m_reported' = [kind |-> Kinds[m_k], what |-> what]
    /\ UNCHANGED <<m_environ, m_run, m_rows, m_total_rows, m_outputs,
                   m_prev_disk>>
    /\ UNCHANGED <<tvars, evars>>

\* process_<kind>_data() up to its loop: engine, output directory, counters
EnterExport ==
    /\ m_pc = "call"
    /\ m_engine' = create_db_connection(m_environ)
    /\ m_dir_exists' = TRUE
    /\ m_disk' = makedirs(m_disk)
    /\ m_chunk_number' = first_chunk_number(m_disk, Kinds[m_k])
    /\ m_total_rows' = 0
    /\ m_pc' = "loop"
    /\ m_entered' = Append(m_entered, Kinds[m_k])
    /\ UNCHANGED <<m_environ, m_run, m_k, m_rows, m_reported, m_reads,
                   m_attempted, m_outputs, m_prev_disk>>
    /\ UNCHANGED <<tvars, evars>>

\* sqlalchemy.create_engine rejects the URL: with DB_PORT unset the port
\* reads "None"; whether the library raises on it is the library's choice
EngineRaises ==
    /\ m_pc = "call"
    /\ "DB_PORT" \notin DOMAIN m_environ
    /\ m_entered' = Append(m_entered, Kinds[m_k])
    /\ Fail("create_engine")
    /\ UNCHANGED <<m_engine, m_chunk_number, m_dir_exists, m_disk, m_attempted,
                   m_reads>>

\* one iteration of the loop: a chunk arrives, is transformed and, when the
\* result is not None, written
ProcessChunk ==
    /\ m_pc = "loop"
    /\ Connects(m_engine)
    /\ m_reads < MaxReads
    /\ \E t \in Transformed[Kinds[m_k]] :
       \E r \in {t.r} :
          /\ ~r.raised
          /\ \E w \in {write_chunk(Kinds[m_k],
                                   [disk |-> m_disk,
                                    chunk_number |-> m_chunk_number,
                                    total_rows |-> m_total_rows], r.result)} :
                /\ m_disk' = w.disk
                /\ m_chunk_number' = w.chunk_number
                /\ m_total_rows' = w.total_rows
          /\ m_outputs' = IF r.result.none THEN m_outputs
                        ELSE [m_outputs EXCEPT ![m_run][Kinds[m_k]] =
                                 Append(@, from_pandas(r.result))]
    /\ m_reads' = m_reads + 1
    /\ m_attempted' = m_attempted \cup {Kinds[m_k]}
    /\ UNCHANGED <<m_environ, m_run, m_pc, m_k, m_engine, m_rows, m_dir_exists,
                   m_reported, m_entered, m_prev_disk>>
    /\ UNCHANGED <<tvars, evars>>

\* a chunk arrives whose created_at does not parse: the transform raises
TransformRaises ==
    /\ m_pc = "loop"
    /\ Connects(m_engine)
    /\ m_reads < MaxReads
    /\ \E t \in Transformed[Kinds[m_k]] : t.r.raised
    /\ m_attempted' = m_attempted \cup {Kinds[m_k]}
    /\ m_disk' = unwind(m_disk, Kinds[m_k], m_chunk_number)
    /\ m_reads' = m_reads + 1
    /\ Fail("transform")
    /\ UNCHANGED <<m_engine, m_chunk_number, m_dir_exists, m_entered>>

\* pd.read_sql raises: no connection, or the query fails mid-stream
ReadRaises ==
    /\ m_pc = "loop"
    /\ m_attempted' = m_attempted \cup {Kinds[m_k]}
    /\ m_disk' = unwind(m_disk, Kinds[m_k], m_chunk_number)
    /\ Fail("read_sql")
    /\ UNCHANGED <<m_engine, m_chunk_number, m_dir_exists, m_entered, m_reads>>

\* a chunk with values arrives and writing it raises (disk full,
\* permission): the file of that name is left as it was, or is gone
WriteRaises ==
    /\ m_pc = "loop"
    /\ Connects(m_engine)
    /\ m_reads < MaxReads
    /\ \E t \in Transformed[Kinds[m_k]] :
          ~t.r.raised /\ ~t.r.result.none
    /\ \E gone \in BOOLEAN :
          LET path == output_file(Kinds[m_k], m_chunk_number)
              left == unwind(m_disk, Kinds[m_k], m_chunk_number)
          IN  m_disk' = IF gone
                      THEN [p \in DOMAIN left \ {path} |-> left[p]]
                      ELSE left
    /\ m_attempted' = m_attempted \cup {Kinds[m_k]}
    /\ m_reads' = m_reads + 1
    /\ Fail("write_table")
    /\ UNCHANGED <<m_engine, m_chunk_number, m_dir_exists, m_entered>>

\* the iterator is exhausted: return total_rows; main() goes on
ReturnRows ==
    /\ m_pc = "loop"
    /\ Connects(m_engine)
    /\ m_rows' = [c \in DOMAIN m_rows \cup {Kinds[m_k]} |->
                   IF c = Kinds[m_k] THEN m_total_rows ELSE m_rows[c]]
    /\ m_attempted' = m_attempted \cup {Kinds[m_k]}
    /\ IF m_k < Len(Kinds)
       THEN m_pc' = "call" /\ m_k' = m_k + 1
       ELSE m_pc' = "finished" /\ m_k' = m_k
    /\ UNCHANGED <<m_environ, m_run, m_engine, m_chunk_number, m_total_rows,
                   m_dir_exists, m_disk, m_reported, m_reads, m_entered,
                   m_outputs, m_prev_disk>>
    /\ UNCHANGED <<tvars, evars>>

\* the program is started again over the same directory
RunAgain ==
    /\ m_pc \in {"finished", "failed"}
    /\ m_run < MaxRuns
    /\ m_run' = m_run + 1
    /\ m_pc' = "call"
    /\ m_k' = 1
    /\ m_engine' = ""
    /\ m_chunk_number' = 0
    /\ m_total_rows' = 0
    /\ m_rows' = <<>>
    /\ m_reported' = NothingReported
    /\ m_entered' = <<>>
    /\ m_attempted' = {}
    /\ m_prev_disk' = m_disk
    /\ UNCHANGED <<m_environ, m_dir_exists, m_disk, m_reads, m_outputs>>
    /\ UNCHANGED <<tvars, evars>>

Next ==
    \/ EnterExport
    \/ EngineRaises
    \/ ProcessChunk
    \/ TransformRaises
    \/ ReadRaises
    \/ WriteRaises
    \/ ReturnRows
    \/ RunAgain

Spec == Init /\ [][Next]_vars

(***************************************************************************)
(* Claims about one transform call (SpecTransform).                        *)
(***************************************************************************)
\* rows of df whose column col holds a value (not SQL NULL)
NonNullRows(df, col) == {i \in 1..Len(df) : df[i].cells[col] # Null}

\* records of a frame that carry signal_id
RecordsOf(rows, signal_id) ==
    {k \in 1..Len(rows) : rows[k].signal_id = signal_id}

\* C1: density preservation.  For every source kind, every mapped field and
\* every batch, the transform emits exactly as many SignalRecords with the
\* field's signal_id as the batch has rows in which the field is non-null,
\* and no emitted record carries a value derived from a null.
C1_DensityPreservation ==
    t_pc = "returned" =>
        /\ \A i \in 1..Len(mapped_columns(t_kind)) :
              LET signal_id == mapped_columns(t_kind)[i][2]
              IN  Cardinality(RecordsOf(t_result.rows, signal_id))
                    = Cardinality(NonNullRows(t_before, i))
        /\ \A k \in 1..Len(t_result.rows) :
              /\ t_result.rows[k].scaled_value.t = "float"
              /\ t_result.rows[k].signal_id \in SignalIds(t_kind)

\* C1 witness: a call returned for a batch in which one field is null in
\* some row and non-null in another, and the result holds that field's
\* record.
C1_Witness ==
    /\ t_pc = "returned"
    /\ ~t_result.none
    /\ \E col \in 1..Len(mapped_columns(t_kind)) :
          /\ NonNullRows(t_before, col) # {}
          /\ NonNullRows(t_before, col) # 1..Len(t_before)

\* C9: the transform has no side effect on its argument.  After the call
\* (returned or raised) the caller's batch holds, in every column and
\* created_at included, the values and representation it held before.
C9_CallerBatchUnchanged ==
    t_pc # "ready" => t_df = t_before

(***************************************************************************)
(* Claims about the chunk loop of one export (SpecExport).                 *)
(***************************************************************************)
\* the chunks of size cs that cover the first pos rows, as sets of row numbers
ChunksRead(pos, cs) ==
    {{r \in 1..pos : (r - 1) \div cs = j} : j \in 0..((pos + cs - 1) \div cs) - 1}

\* a chunk with a value in some mapped column of some row
HasValue(table, chunk) ==
    \E r \in chunk : \E c \in 1..Len(table[r].cells) : table[r].cells[c] # Null

NonEmptyChunksRead(table, pos, cs) ==
    Cardinality({ch \in ChunksRead(pos, cs) : HasValue(table, ch)})

\* the places <<file, row>> of the records in the files of a directory that
\* carry signal_id at microsecond us
PlacesOf(disk, signal_id, us) ==
    UNION {{<<p, k>> : k \in {k \in 1..Len(disk[p]) :
                                 /\ disk[p][k].signal_id = signal_id
                                 /\ disk[p][k].created_at.us = us}} :
           p \in DOMAIN disk}

\* rows held by all files of a directory
RowsOnDisk(disk) ==
    Cardinality(UNION {{<<p, k>> : k \in 1..Len(disk[p])} : p \in DOMAIN disk})

\* C2: chunk numbering.  At every point of an export the files it has
\* written are exactly <kind>_chunk_0 .. <kind>_chunk_{n-1}, n being the
\* number of chunks processed so far that had a value in some mapped field;
\* an all-null chunk writes no file and leaves the chunk index unchanged.
C2_ChunkNumbering ==
    \A cs \in DOMAIN e_exp :
        LET x == e_exp[cs]
            n == NonEmptyChunksRead(e_table, x.pos, cs)
        IN  /\ DOMAIN x.disk = {output_file(e_kind, i) : i \in 0..(n - 1)}
            /\ x.chunk_number = n

\* C2 witness: an export has processed an all-null chunk and a chunk with
\* values, and holds exactly one file.
C2_Witness ==
    \E cs \in DOMAIN e_exp :
        /\ \E ch \in ChunksRead(e_exp[cs].pos, cs) : ~HasValue(e_table, ch)
        /\ \E ch \in ChunksRead(e_exp[cs].pos, cs) : HasValue(e_table, ch)
        /\ e_exp[cs].chunk_number = 1
        /\ DOMAIN e_exp[cs].disk = {output_file(e_kind, 0)}

\* C3: batch-size invariance.  On the same table, the exports run with
\* different chunk sizes return the same total row count.
C3_BatchSizeInvariance ==
    \A a \in DOMAIN e_exp : \A b \in DOMAIN e_exp :
        e_exp[a].pc = "returned" /\ e_exp[b].pc = "returned"
            => e_exp[a].returned = e_exp[b].returned

\* C3 witness: two exports of the same table returned a non-zero total and
\* wrote different numbers of files (their chunk boundaries differ).
C3_Witness ==
    \E a \in DOMAIN e_exp : \E b \in DOMAIN e_exp :
        /\ e_exp[a].pc = "returned" /\ e_exp[b].pc = "returned"
        /\ e_exp[a].returned > 0
        /\ e_exp[a].chunk_number # e_exp[b].chunk_number

\* C8 as claimed: across everything one export emits, no two SignalRecords
\* have the same signal_id and the same created_at.
C8_UniquePerSignalAndTimestamp ==
    \A cs \in DOMAIN e_exp :
        \A id \in SignalIds(e_kind) : \A us \in 1..MaxTime :
            Cardinality(PlacesOf(e_exp[cs].disk, id, us)) <= 1

\* the mapped columns that hold a value in one of the first pos rows
ColumnsWithValue(kind, table, pos) ==
    {c \in 1..Len(mapped_columns(kind)) :
        \E r \in 1..pos : table[r].cells[c] # Null}

\* C8 amended: for every signal_id and every timestamp, the export emits
\* exactly as many SignalRecords with that signal_id and created_at as the
\* rows read so far hold that created_at with the field non-null: one record
\* per (wide row, non-null field), so the pair is unique only where wide rows
\* do not share a created_at.  Stated in two parts: no record carries the
\* signal_id of a field that is null in every row read, and for the other
\* fields the two counts agree.
C8_OnePerRowAndField ==
    \A cs \in DOMAIN e_exp :
    \A cols \in {ColumnsWithValue(e_kind, e_table, e_exp[cs].pos)} :
        /\ \A p \in DOMAIN e_exp[cs].disk :
           \A k \in 1..Len(e_exp[cs].disk[p]) :
              \E c \in cols :
                 e_exp[cs].disk[p][k].signal_id = mapped_columns(e_kind)[c][2]
        /\ \A c \in cols : \A us \in 1..MaxTime :
              Cardinality(PlacesOf(e_exp[cs].disk,
                                   mapped_columns(e_kind)[c][2], us))
                = Cardinality({r \in 1..e_exp[cs].pos :
                                  /\ e_table[r].created_at = Datetime(us)
                                  /\ e_table[r].cells[c] # Null})

\* C8 witness: a finished export holds two records with the same signal_id
\* and created_at, from two wide rows that share the created_at.
C8_Witness ==
    \E cs \in DOMAIN e_exp :
        /\ e_exp[cs].pc = "returned"
        /\ \E id \in SignalIds(e_kind) : \E us \in 1..MaxTime :
              Cardinality(PlacesOf(e_exp[cs].disk, id, us)) = 2

(***************************************************************************)
(* Claims about main() and repeated runs over one directory (Spec).        *)
(***************************************************************************)
\* the path of every file an export can write within MaxReads chunks
UnitFile ==
    [kind \in KindSet |-> [n \in 0..MaxReads |-> output_file(kind, n)]]

\* the chunk indices of the files of a kind that a directory holds
IndicesOf(disk, kind) ==
    {n \in 0..MaxReads : UnitFile[kind][n] \in DOMAIN disk}

\* the files of a kind in a directory, by chunk index
UnitsOf(disk, kind) ==
    [n \in IndicesOf(disk, kind) |-> disk[UnitFile[kind][n]]]

\* what a run wrote for a kind, by chunk index
RunOutput(r, kind) ==
    [n \in 0..(Len(m_outputs[r][kind]) - 1) |-> m_outputs[r][kind][n + 1]]

\* the tables this run wrote for a kind are on disk under indices 0, 1, ..
OutputsOnDisk(kind) ==
    \A n \in 0..(Len(m_outputs[m_run][kind]) - 1) :
        /\ UnitFile[kind][n] \in DOMAIN m_disk
        /\ m_disk[UnitFile[kind][n]] = m_outputs[m_run][kind][n + 1]

\* C4: abort on first failure.  The exports are entered one after another in
\* the order vdm, acu, inverter, pedal, mobile, each only after the one
\* before it returned; once an export raised, the error is reported, the run
\* is over, and no later kind was entered, read or written in that run.
C4_AbortOnFirstFailure ==
    /\ Len(m_entered) <= Len(Kinds)
    /\ \A i \in 1..Len(m_entered) :
          /\ m_entered[i] = Kinds[i]
          /\ i < Len(m_entered) => Kinds[i] \in DOMAIN m_rows
    /\ \A i \in 1..Len(Kinds) :
          (Kinds[i] \in m_attempted \/ m_outputs[m_run][Kinds[i]] # <<>>)
              => i <= Len(m_entered)
    /\ m_reported # NothingReported =>
          /\ m_pc = "failed"
          /\ m_entered # <<>>
          /\ m_reported.kind = m_entered[Len(m_entered)]
          /\ m_reported.kind \notin DOMAIN m_rows
    /\ m_pc = "failed" => m_reported # NothingReported

\* C4 witness: in a first run the read of vdm failed on its second chunk;
\* one vdm file is on disk and nothing of any other kind.
C4_Witness ==
    /\ m_run = 1
    /\ m_reported = [kind |-> "vdm", what |-> "read_sql"]
    /\ Len(m_outputs[1]["vdm"]) = 1
    /\ DOMAIN m_disk = {output_file("vdm", 0)}
    /\ m_entered = <<"vdm">>

\* C5: no rollback, no silent truncation.  When a read, a transform or a
\* write failed in the middle of an export, every file this run had written
\* before, for the failing kind and the kinds before it, is on disk with the
\* content it was written with, and the failing export returned no total.
C5_NoRollbackNoTruncation ==
    m_reported # NothingReported =>
        /\ \A kind \in KindSet : OutputsOnDisk(kind)
        /\ m_reported.kind \notin DOMAIN m_rows

\* C5 witness: the write of the second acu chunk failed after vdm and acu had
\* each written a file.
C5_Witness ==
    /\ m_reported = [kind |-> "acu", what |-> "write_table"]
    /\ Len(m_outputs[m_run]["vdm"]) = 1
    /\ Len(m_outputs[m_run]["acu"]) = 1
    /\ m_chunk_number = 1

\* C6 as claimed: with a connection parameter missing from the environment
\* no export is entered, no read is attempted and no output directory or
\* file is created.
C6_ConfigErrorBeforeAnyExport ==
    (\E n \in EnvNames : n \notin DOMAIN m_environ) =>
        /\ m_entered = <<>>
        /\ m_attempted = {}
        /\ ~m_dir_exists

\* C7: a re-run restarts every kind's chunk index from 0 and overwrites.
\* In every run, whatever the directory held before, an export starts at
\* index 0 and its k-th non-empty chunk is the content of <kind>_chunk_{k}.
C7_RerunRestartsAtZero ==
    /\ \A kind \in KindSet : OutputsOnDisk(kind)
    /\ m_pc = "loop" =>
          m_chunk_number = Len(m_outputs[m_run][Kinds[m_k]])

\* C7 witness: a re-run wrote chunk 0 of a kind over a file of the earlier
\* run that held something else, while a later file of that run exists.
C7_Witness ==
    /\ m_run > 1
    /\ \E kind \in KindSet :
          /\ Len(m_outputs[m_run][kind]) = 1
          /\ output_file(kind, 0) \in DOMAIN m_prev_disk
          /\ output_file(kind, 1) \in DOMAIN m_prev_disk
          /\ m_prev_disk[output_file(kind, 0)] # m_disk[output_file(kind, 0)]

\* the export of a kind returned in this run, having written fewer files
\* than the directory held of that kind when the run began
StaleCase(kind) ==
    /\ kind \in DOMAIN m_rows
    /\ \E n \in IndicesOf(m_prev_disk, kind) :
          n >= Len(m_outputs[m_run][kind])

\* the files of the earlier runs beyond those this run wrote are unchanged
StaleUnitsKept(kind) ==
    \A n \in IndicesOf(m_prev_disk, kind) :
        n >= Len(m_outputs[m_run][kind]) =>
            /\ UnitFile[kind][n] \in DOMAIN m_disk
            /\ m_disk[UnitFile[kind][n]] = m_prev_disk[UnitFile[kind][n]]

\* the total the run reported for a kind is below the rows in its files
ReportedBelowHeld(kind) ==
    m_rows[kind] < RowsOnDisk(UnitsOf(m_disk, kind))

\* C10 as claimed: after such a run the stale files are still present, the
\* files of the kind are not the output of any single run, and the reported
\* total is smaller than the rows held.
C10_NotTheOutputOfAnyRun ==
    \A kind \in KindSet :
        StaleCase(kind) =>
            /\ StaleUnitsKept(kind)
            /\ \A r \in 1..m_run : UnitsOf(m_disk, kind) # RunOutput(r, kind)
            /\ ReportedBelowHeld(kind)

\* C10 amended: after such a run the stale files are still present with
\* their content, the files of the kind are not the output of the latest run
\* (they can equal the output of an earlier run, when the latest run rewrote
\* its first files with the same content), and the reported total is
\* smaller than the rows held.
C10_StaleOutputs ==
    \A kind \in KindSet :
        StaleCase(kind) =>
            /\ StaleUnitsKept(kind)
            /\ UnitsOf(m_disk, kind) # RunOutput(m_run, kind)
            /\ ReportedBelowHeld(kind)

\* C10 witness: a second run returned one vdm file into a directory that
\* held two; the second file is the first run's.
C10_Witness ==
    /\ m_run = 2
    /\ StaleCase("vdm")
    /\ Len(m_outputs[1]["vdm"]) = 2
    /\ Len(m_outputs[2]["vdm"]) = 1
    /\ m_disk[output_file("vdm", 1)] = m_outputs[1]["vdm"][2]
    /\ m_disk[output_file("vdm", 0)] # m_outputs[1]["vdm"][1]

====
